---- MODULE Spec2Model ----
(***************************************************************************)
(* A model of the node graph of src/app/node/node.cpp: the parameters of   *)
(* a Node (AddParameter, HasParamWithID), the dependency query             *)
(* (GetDependencies / GetDependenciesInternal) and the cache invalidation  *)
(* propagation (InvalidateCache), together with the deserialization        *)
(* linker declared in src/app/common/xmlutils.h, and of the bridge between *)
(* an input and its widgets (NodeParamViewWidgetBridge), whose source is   *)
(* the second half of the same file.                                       *)
(***************************************************************************)
EXTENDS Integers, Sequences, FiniteSets, TLC

(***************************************************************************)
(* Bounds of the model.                                                    *)
(***************************************************************************)
MaxEdges == 4       \* edges in the graph of Spec
MaxCyclicEdges == 3 \* edges in the graph of SpecCyclic
MaxWideEdges == 7   \* edges in the graph of SpecWide
MaxStack == 6       \* nesting depth of calls the call stack can hold
MaxTime == 1        \* the times a range is drawn from are 0..MaxTime
MaxAdds == 3        \* parameters added to the nodes of SpecParam
MaxToken == 2       \* the serialization tokens are 1..MaxToken
MaxBatch == 2       \* pending connection descriptors of a load
MaxValue == 1       \* the values a slider is moved to are 0..MaxValue
MaxItems == 3       \* entries of a combo box, separators included
MaxUndo == 2        \* commands pushed on the undo stack

Nodes == {"A", "B", "C", "D"}

kInput == "kInput"
kOutput == "kOutput"

VARIABLES
  params,   \* params[n]: the NodeParam children of node n, in order
  edges,    \* edges[p]: the edges() of parameter p = <<node, index>>
  call,     \* the traversal call that has just been made, and what it did
  build,    \* whether QT_NO_DEBUG is defined, and whether an assertion has failed
  xml,      \* the XMLNodeData of a load, and whether its connections are made
  bridge    \* the NodeParamViewWidgetBridge of an input, its widgets and the input's value

vars == <<params, edges, call, build, xml, bridge>>

NoCall == [op |-> "none"]
DebugBuild == [qt_no_debug |-> FALSE, aborted |-> FALSE]
NoLoad == [node_ptrs |-> <<>>, desired_connections |-> <<>>, connected |-> FALSE]
NoBridge == [type |-> "kNone"]

(***************************************************************************)
(* Parameters.  A parameter is referred to as <<n, i>>: the i-th child of  *)
(* node n.                                                                 *)
(***************************************************************************)
Range(s) == {s[i] : i \in 1..Len(s)}

Refs(ps) == UNION {{<<n, i>> : i \in 1..Len(ps[n])} : n \in Nodes}

\* Node::parameters(): the children of the node, in order
parameters(n) == params[n]

\* NodeParam::parent()
parent(p) == p[1]

\* NodeParam::type()
type(p) == params[p[1]][p[2]].type

\* QObject::setParent as AddParameter uses it: the parameter becomes the
\* last child of the node
setParent(ps, n, id, t) == [ps EXCEPT ![n] = Append(@, [id |-> id, type |-> t])]

RECURSIVE Construct(_, _)
\* the parameters a sequence of AddParameter calls <<n, id, type>> attaches
Construct(ps, adds) ==
  IF adds = <<>> THEN ps
  ELSE Construct(setParent(ps, Head(adds)[1], Head(adds)[2], Head(adds)[3]), Tail(adds))

NoParams == [n \in Nodes |-> <<>>]

(***************************************************************************)
(* Edges.  An edge is [output |-> an Output parameter, input |-> an Input  *)
(* parameter].  edges[p] holds, for an Input parameter p, its edges in the *)
(* order they were connected.  The edges of an Output parameter are the    *)
(* edges of the graph that leave it; the model keeps them in one fixed     *)
(* order, and records of InvalidateCache nothing that depends on the order *)
(* but the order of the calls.                                             *)
(***************************************************************************)
EdgesOf(es) == UNION {Range(es[p]) : p \in DOMAIN es}
AllEdges == EdgesOf(edges)

RECURSIVE SeqOfSet(_)
SeqOfSet(S) ==
  IF S = {} THEN <<>>
  ELSE LET x == CHOOSE y \in S : TRUE IN <<x>> \o SeqOfSet(S \ {x})

\* NodeParam::edges()
ParamEdges(p) ==
  IF type(p) = kInput THEN edges[p]
  ELSE SeqOfSet({e \in AllEdges : e.output = p})


(***************************************************************************)
(* Node::GetDependencies.  The accumulator of the recursion is the list    *)
(* the calls append to, together with what the model observes of the       *)
(* recursion: the deepest nesting reached, and whether the recursion ran   *)
(* out of call stack (it nested more than MaxStack calls), which ends the  *)
(* program.                                                                *)
(***************************************************************************)
Max(a, b) == IF a >= b THEN a ELSE b

\* a type test that lets every parameter through
AnyParam(p) == TRUE

\* p->type() == NodeParam::kInput
IsInputParam(p) == type(p) = kInput

\* the node at the other end of the edge
NodeAtInput(edge) == parent(edge.input)

\* Node* connected_node = edge->output()->parent()
ConnectedNode(edge) == parent(edge.output)

\* an append that keeps one occurrence of each node
AppendOnce(list, n) == IF n \in Range(list) THEN list ELSE Append(list, n)

\* list.append(connected_node)
AppendNode(list, n) == Append(list, n)

RECURSIVE GetDependenciesInternal(_, _, _)
RECURSIVE DepsForeachEdge(_, _, _)
RECURSIVE DepsForeachParam(_, _, _, _)

\* a loop that appends the connected nodes and does not recurse into them
DepsDirectOnly(param_edges, acc, depth) ==
  [acc EXCEPT !.list = @ \o [k \in 1..Len(param_edges) |-> ConnectedNode(param_edges[k])]]

\* a loop that recurses into the connected node first and appends it after
DepsPostOrder(param_edges, acc, depth) ==
  IF param_edges = <<>> \/ acc.overflow THEN acc
  ELSE LET connected_node == ConnectedNode(Head(param_edges))
           below == GetDependenciesInternal(connected_node, acc, depth + 1)
       IN DepsForeachEdge(Tail(param_edges),
                          [below EXCEPT !.list = AppendNode(@, connected_node)],
                          depth)

\* foreach (NodeEdgePtr edge, param_edges): append the node, then recurse
DepsForeachEdge(param_edges, acc, depth) ==
  IF param_edges = <<>> \/ acc.overflow THEN acc
  ELSE LET connected_node == ConnectedNode(Head(param_edges))
           appended == [acc EXCEPT !.list = AppendNode(@, connected_node)]
       IN DepsForeachEdge(Tail(param_edges),
                          GetDependenciesInternal(connected_node, appended, depth + 1),
                          depth)

\* foreach (NodeParam* p, params), from the i-th on
DepsForeachParam(n, i, acc, depth) ==
  IF i > Len(parameters(n)) \/ acc.overflow THEN acc
  ELSE DepsForeachParam(n, i + 1,
                        IF IsInputParam(<<n, i>>)
                          THEN DepsForeachEdge(ParamEdges(<<n, i>>), acc, depth)
                          ELSE acc,
                        depth)

GetDependenciesInternal(n, acc, depth) ==
  IF depth > MaxStack THEN [acc EXCEPT !.overflow = TRUE]
  ELSE DepsForeachParam(n, 1, [acc EXCEPT !.depth = Max(@, depth)], depth)

\* QList<Node*> node_list; GetDependenciesInternal(this, node_list); return node_list
GetDependencies(n) ==
  GetDependenciesInternal(n, [list |-> <<>>, overflow |-> FALSE, depth |-> 0], 1)

(***************************************************************************)
(* Node::InvalidateCache.  The accumulator holds the recursive calls made, *)
(* each as <<node, start_range, end_range>>, in the order they are made.   *)
(***************************************************************************)
\* a type test that lets every parameter through
EveryParam(p) == TRUE

\* param->type() == NodeParam::kOutput
IsOutputParam(p) == type(p) = kOutput

\* param->edges().at(i)->input()->parent()
DestinationNode(edge) == parent(edge.input)

\* the arguments in the other order
SwappedRange(start_range, end_range) == <<end_range, start_range>>

\* the arguments of the recursive call: (start_range, end_range)
RelayedRange(start_range, end_range) == <<start_range, end_range>>

RECURSIVE InvalidateCacheInternal(_, _, _, _, _)
RECURSIVE InvForEdge(_, _, _, _, _, _)
RECURSIVE InvForParam(_, _, _, _, _, _)

\* an inner loop that relays to the first edge of the parameter only
InvFirstEdgeOnly(param, j, acc, start_range, end_range, depth) ==
  IF j > 1 \/ j > Len(ParamEdges(param)) \/ acc.overflow THEN acc
  ELSE LET to == DestinationNode(ParamEdges(param)[j])
           called == [acc EXCEPT !.calls = Append(@, <<to, start_range, end_range>>)]
       IN InvalidateCacheInternal(to, start_range, end_range, called, depth + 1)

\* for (int i=0;i<param->edges().size();i++), the inner loop, from the j-th edge
InvForEdge(param, j, acc, start_range, end_range, depth) ==
  IF j > Len(ParamEdges(param)) \/ acc.overflow THEN acc
  ELSE LET to == DestinationNode(ParamEdges(param)[j])
           r == RelayedRange(start_range, end_range)
           called == [acc EXCEPT !.calls = Append(@, <<to, r[1], r[2]>>)]
       IN InvForEdge(param, j + 1,
                     InvalidateCacheInternal(to, r[1], r[2], called, depth + 1),
                     start_range, end_range, depth)

\* the two loops sharing one index: the inner loop leaves it at the number of
\* edges of the parameter, the outer loop resumes from there, and a loop that
\* comes back to a parameter it has left never ends
InvSharedIndex(n, i, acc, start_range, end_range, depth) ==
  IF i > Len(parameters(n)) \/ acc.overflow THEN acc
  ELSE IF ~IsOutputParam(<<n, i>>)
         THEN InvForParam(n, i + 1, acc, start_range, end_range, depth)
       ELSE LET relayed == InvForEdge(<<n, i>>, 1, acc, start_range, end_range, depth)
                resumed == Len(ParamEdges(<<n, i>>)) + 2
            IN IF resumed <= i THEN [relayed EXCEPT !.overflow = TRUE]
               ELSE InvForParam(n, resumed, relayed, start_range, end_range, depth)

\* for (int i=0;i<params.size();i++), the outer loop, from the i-th parameter
InvForParam(n, i, acc, start_range, end_range, depth) ==
  IF i > Len(parameters(n)) \/ acc.overflow THEN acc
  ELSE InvForParam(n, i + 1,
                   IF IsOutputParam(<<n, i>>)
                     THEN InvForEdge(<<n, i>>, 1, acc, start_range, end_range, depth)
                     ELSE acc,
                   start_range, end_range, depth)

InvalidateCacheInternal(n, start_range, end_range, acc, depth) ==
  IF depth > MaxStack THEN [acc EXCEPT !.overflow = TRUE]
  ELSE InvForParam(n, 1, [acc EXCEPT !.depth = Max(@, depth)], start_range, end_range, depth)

InvalidateCache(n, start_range, end_range) ==
  InvalidateCacheInternal(n, start_range, end_range,
                          [calls |-> <<>>, overflow |-> FALSE, depth |-> 0], 1)

(***************************************************************************)
(* The graph relations the properties are stated with.                     *)
(***************************************************************************)
\* <<x, y>>: an edge leads from an Output parameter of x to an Input parameter of y
ForwardOf(es) == {<<parent(e.output), parent(e.input)>> : e \in EdgesOf(es)}
Forward == ForwardOf(edges)

RECURSIVE Closure(_, _)
Closure(S, R) ==
  LET T == S \cup {r[2] : r \in {q \in R : q[1] \in S}}
  IN IF T = S THEN S ELSE Closure(T, R)

\* the nodes reached from n by one or more edges, forward and backward
DownstreamIn(R, n) == Closure({r[2] : r \in {q \in R : q[1] = n}}, R)
Downstream(n) == DownstreamIn(Forward, n)
Backward == {<<r[2], r[1]>> : r \in Forward}
Upstream(n) == DownstreamIn(Backward, n)

Acyclic == \A n \in Nodes : n \notin Downstream(n)

(***************************************************************************)
(* Connecting and disconnecting, the work of NodeParam, which this part of *)
(* the repository only uses: an edge joins an Output parameter to an Input *)
(* parameter, no two edges join the same two parameters, and a connection  *)
(* that closes a cycle is rejected.                                        *)
(***************************************************************************)
AddEdge(es, o, i) == [es EXCEPT ![i] = Append(@, [output |-> o, input |-> i])]

RECURSIVE Without(_, _)
Without(s, x) ==
  IF s = <<>> THEN <<>>
  ELSE IF Head(s) = x THEN Without(Tail(s), x) ELSE <<Head(s)>> \o Without(Tail(s), x)

RemoveEdge(es, e) == [es EXCEPT ![e.input] = Without(@, e)]

CanConnectIn(es, o, i) ==
  /\ o \in DOMAIN es /\ type(o) = kOutput
  /\ i \in DOMAIN es /\ type(i) = kInput
  /\ [output |-> o, input |-> i] \notin EdgesOf(es)
CanConnect(o, i) == CanConnectIn(edges, o, i)

ClosesCycleIn(es, o, i) ==
  parent(o) = parent(i) \/ parent(o) \in DownstreamIn(ForwardOf(es), parent(i))
ClosesCycle(o, i) == ClosesCycleIn(edges, o, i)

Crashed == call.op # "none" /\ call.overflow

ConnectEdge(o, i, max) ==
  /\ call = NoCall
  /\ Cardinality(AllEdges) < max
  /\ CanConnect(o, i)
  /\ ~ClosesCycle(o, i)
  /\ edges' = AddEdge(edges, o, i)
  /\ UNCHANGED <<params, call, build, xml, bridge>>

DisconnectEdge(e) ==
  /\ call = NoCall
  /\ edges' = RemoveEdge(edges, e)
  /\ UNCHANGED <<params, call, build, xml, bridge>>

(***************************************************************************)
(* The calls.  All of this runs on one thread, one call at a time: call    *)
(* records the call that has just been made and what it did, until it has  *)
(* returned to its caller.  A call that ran out of call stack never        *)
(* returns.                                                                *)
(***************************************************************************)
Times == 0..MaxTime

CallGetDependencies(n) ==
  /\ call = NoCall
  /\ LET r == GetDependencies(n)
     IN call' = [op |-> "GetDependencies", node |-> n, list |-> r.list,
                 overflow |-> r.overflow, depth |-> r.depth]
  /\ UNCHANGED <<params, edges, build, xml, bridge>>

CallInvalidateCache(n, start_range, end_range) ==
  /\ call = NoCall
  /\ LET r == InvalidateCache(n, start_range, end_range)
     IN call' = [op |-> "InvalidateCache", node |-> n,
                 start |-> start_range, end |-> end_range, calls |-> r.calls,
                 overflow |-> r.overflow, depth |-> r.depth]
  /\ UNCHANGED <<params, edges, build, xml, bridge>>

Return ==
  /\ call # NoCall
  /\ ~Crashed
  /\ call' = NoCall
  /\ UNCHANGED <<params, edges, build, xml, bridge>>

(***************************************************************************)
(* Spec: four nodes as their constructors leave them, connected and        *)
(* disconnected at will, and queried.                                      *)
(***************************************************************************)
GraphParams ==
  Construct(NoParams,
            << <<"A", "out", kOutput>>, <<"A", "out2", kOutput>>,
               <<"B", "in", kInput>>,   <<"B", "out", kOutput>>,
               <<"C", "in", kInput>>,   <<"C", "out", kOutput>>,
               <<"D", "in", kInput>>,   <<"D", "in2", kInput>> >>)

Init ==
  /\ params = GraphParams
  /\ edges = [p \in Refs(GraphParams) |-> <<>>]
  /\ call = NoCall
  /\ build = DebugBuild
  /\ xml = NoLoad
  /\ bridge = NoBridge

Next ==
  \/ \E o, i \in DOMAIN edges : ConnectEdge(o, i, MaxEdges)
  \/ \E e \in AllEdges : DisconnectEdge(e)
  \/ \E n \in Nodes : CallGetDependencies(n)
  \/ \E n \in Nodes, s, e \in Times : CallInvalidateCache(n, s, e)
  \/ Return

Spec == Init /\ [][Next]_vars

(***************************************************************************)
(* SpecWide: three nodes with many Input parameters, so that two nodes can *)
(* be joined by several parallel edges through different parameters, and   *)
(* the dependency query.                                                   *)
(***************************************************************************)
WideParams ==
  Construct(NoParams,
            << <<"A", "out", kOutput>>,
               <<"B", "in1", kInput>>, <<"B", "in2", kInput>>, <<"B", "in3", kInput>>,
               <<"B", "out", kOutput>>,
               <<"C", "in1", kInput>>, <<"C", "in2", kInput>>, <<"C", "in3", kInput>>,
               <<"C", "in4", kInput>> >>)

InitWide ==
  /\ params = WideParams
  /\ edges = [p \in Refs(WideParams) |-> <<>>]
  /\ call = NoCall
  /\ build = DebugBuild
  /\ xml = NoLoad
  /\ bridge = NoBridge

NextWide ==
  \/ \E o, i \in DOMAIN edges : ConnectEdge(o, i, MaxWideEdges)
  \/ \E e \in AllEdges : DisconnectEdge(e)
  \/ \E n \in Nodes : CallGetDependencies(n)
  \/ Return

SpecWide == InitWide /\ [][NextWide]_vars

(***************************************************************************)
(* SpecCyclic: the same four nodes when the connections are not validated  *)
(* upstream, so that a cyclic dependency can be there when a traversal     *)
(* starts.                                                                 *)
(***************************************************************************)
ConnectUnchecked(o, i, max) ==
  /\ call = NoCall
  /\ Cardinality(AllEdges) < max
  /\ CanConnect(o, i)
  /\ edges' = AddEdge(edges, o, i)
  /\ UNCHANGED <<params, call, build, xml, bridge>>

NextCyclic ==
  \/ \E o, i \in DOMAIN edges : ConnectUnchecked(o, i, MaxCyclicEdges)
  \/ \E e \in AllEdges : DisconnectEdge(e)
  \/ \E n \in Nodes : CallGetDependencies(n)
  \/ \E n \in Nodes, s, e \in Times : CallInvalidateCache(n, s, e)
  \/ Return

SpecCyclic == Init /\ [][NextCyclic]_vars

(***************************************************************************)
(* Node::AddParameter.  Q_ASSERT ends the program when its condition is    *)
(* false, and is compiled to nothing when QT_NO_DEBUG is defined.          *)
(***************************************************************************)
ParamIds == {"in", "out"}

\* Node::HasParamWithID
HasParamWithID(n, id) == \E k \in 1..Len(parameters(n)) : parameters(n)[k].id = id

\* Q_ASSERT(cond): whether the program goes on
Q_ASSERT(cond) == build.qt_no_debug \/ cond

AddParameter(n, id, t) ==
  /\ ~build.aborted
  /\ Cardinality(Refs(params)) < MaxAdds
  /\ IF Q_ASSERT(~HasParamWithID(n, id))
       THEN /\ params' = setParent(params, n, id, t)
            /\ edges' = [p \in Refs(params') |-> IF p \in DOMAIN edges THEN edges[p] ELSE <<>>]
            /\ UNCHANGED build
       ELSE /\ build' = [build EXCEPT !.aborted = TRUE]
            /\ UNCHANGED <<params, edges>>
  /\ UNCHANGED <<call, xml, bridge>>

(***************************************************************************)
(* SpecParam: nodes under construction, in a build with and in a build     *)
(* without QT_NO_DEBUG.                                                    *)
(***************************************************************************)
InitParam ==
  /\ params = NoParams
  /\ edges = [p \in Refs(NoParams) |-> <<>>]
  /\ call = NoCall
  /\ build \in [qt_no_debug : BOOLEAN, aborted : {FALSE}]
  /\ xml = NoLoad
  /\ bridge = NoBridge

NextParam ==
  \E n \in Nodes, id \in ParamIds, t \in {kInput, kOutput} : AddParameter(n, id, t)

SpecParam == InitParam /\ [][NextParam]_vars

(***************************************************************************)
(* XMLConnectNodes, declared in xmlutils.h and defined elsewhere: for each *)
(* pending connection, in order, the source node is looked up by its token *)
(* in node_ptrs; if it is there, an edge is created from the Output        *)
(* parameter of that name to the connection's input, as ConnectEdge would; *)
(* if it is not, the connection is dropped and the load goes on.           *)
(***************************************************************************)
Tokens == 1..MaxToken

\* the Output parameters of node n that have the id
OutputsNamed(n, id) ==
  {<<n, k>> : k \in {j \in 1..Len(parameters(n)) :
                       parameters(n)[j].id = id /\ parameters(n)[j].type = kOutput}}

\* node_ptrs.value(con.output_node) is there
Resolves(ptrs, con) == con.output_node \in DOMAIN ptrs

\* an XMLNodeData::SerializedConnection whose token resolves names this edge
EdgeOfConnection(ptrs, con) ==
  [output |-> CHOOSE o \in OutputsNamed(ptrs[con.output_node], con.output) : TRUE,
   input |-> con.input]

\* a load that stops at the first connection whose token is not there
RECURSIVE XMLConnectUntilMissing(_, _, _)
XMLConnectUntilMissing(es, ptrs, cons) ==
  IF cons = <<>> \/ ~Resolves(ptrs, Head(cons)) THEN es
  ELSE LET e == EdgeOfConnection(ptrs, Head(cons))
       IN XMLConnectUntilMissing(
            IF CanConnectIn(es, e.output, e.input) /\ ~ClosesCycleIn(es, e.output, e.input)
              THEN AddEdge(es, e.output, e.input) ELSE es,
            ptrs, Tail(cons))

RECURSIVE XMLConnectNodes(_, _, _)
XMLConnectNodes(es, ptrs, cons) ==
  IF cons = <<>> THEN es
  ELSE IF ~Resolves(ptrs, Head(cons)) THEN XMLConnectNodes(es, ptrs, Tail(cons))
  ELSE LET e == EdgeOfConnection(ptrs, Head(cons))
       IN XMLConnectNodes(
            IF CanConnectIn(es, e.output, e.input) /\ ~ClosesCycleIn(es, e.output, e.input)
              THEN AddEdge(es, e.output, e.input) ELSE es,
            ptrs, Tail(cons))

CallXMLConnectNodes ==
  /\ ~xml.connected
  /\ edges' = XMLConnectNodes(edges, xml.node_ptrs, xml.desired_connections)
  /\ xml' = [xml EXCEPT !.connected = TRUE]
  /\ UNCHANGED <<params, call, build, bridge>>

(***************************************************************************)
(* SpecXML: the four nodes, reconstructed and not yet connected, and the   *)
(* XMLNodeData of a file that was saved from a graph the program accepts:  *)
(* some of its tokens are registered in node_ptrs, a connection whose      *)
(* token is registered names an Output parameter of the node, and the      *)
(* connections close no cycle.                                             *)
(***************************************************************************)
InputRefs == {p \in Refs(GraphParams) : GraphParams[p[1]][p[2]].type = kInput}

Connections == [input : InputRefs, output_node : Tokens, output : {"out"}]

Batches == UNION {[1..k -> Connections] : k \in 0..MaxBatch}

NodePtrs == UNION {[T -> Nodes] : T \in SUBSET Tokens}

SavedEdges(ptrs, cons) ==
  {EdgeOfConnection(ptrs, cons[k]) : k \in {j \in 1..Len(cons) : Resolves(ptrs, cons[j])}}

WellFormed(ptrs, cons) ==
  /\ \A k \in 1..Len(cons) :
        Resolves(ptrs, cons[k]) =>
           OutputsNamed(ptrs[cons[k].output_node], cons[k].output) # {}
  /\ LET R == {<<parent(e.output), parent(e.input)>> : e \in SavedEdges(ptrs, cons)}
     IN \A n \in Nodes : n \notin DownstreamIn(R, n)

InitXML ==
  /\ params = GraphParams
  /\ edges = [p \in Refs(GraphParams) |-> <<>>]
  /\ call = NoCall
  /\ build = DebugBuild
  /\ bridge = NoBridge
  /\ \E ptrs \in NodePtrs, cons \in Batches :
        /\ WellFormed(ptrs, cons)
        /\ xml = [node_ptrs |-> ptrs, desired_connections |-> cons, connected |-> FALSE]

NextXML == CallXMLConnectNodes

SpecXML == InitXML /\ [][NextXML]_vars

(***************************************************************************)
(* Paths.  A backward edge-path from n is a sequence of edges, the first   *)
(* on an Input parameter of n, each next one on an Input parameter of the  *)
(* node that owns the Output parameter of the one before; it leads to the  *)
(* node that owns the Output parameter of its last edge.  A forward        *)
(* edge-path is the same with Input and Output exchanged.  On an acyclic   *)
(* graph no path has more edges than there are nodes.                      *)
(***************************************************************************)
Source(e) == parent(e.output)
Target(e) == parent(e.input)
Last(p) == p[Len(p)]

RECURSIVE BackExtend(_, _)
BackExtend(P, k) ==
  IF k = 0 \/ P = {} THEN {}
  ELSE P \cup BackExtend({Append(q[1], q[2]) :
                            q \in {r \in P \X AllEdges : Target(r[2]) = Source(Last(r[1]))}},
                         k - 1)

RECURSIVE ForwardExtend(_, _)
ForwardExtend(P, k) ==
  IF k = 0 \/ P = {} THEN {}
  ELSE P \cup ForwardExtend({Append(q[1], q[2]) :
                               q \in {r \in P \X AllEdges : Source(r[2]) = Target(Last(r[1]))}},
                            k - 1)

BackPathsFrom(n) ==
  BackExtend({<<e>> : e \in {d \in AllEdges : Target(d) = n}}, Cardinality(Nodes))
ForwardPathsFrom(n) ==
  ForwardExtend({<<e>> : e \in {d \in AllEdges : Source(d) = n}}, Cardinality(Nodes))

\* of the backward paths P those that lead to m, of the forward paths those that do
BackPathsTo(P, m) == Cardinality({p \in P : Source(Last(p)) = m})
ForwardPathsTo(P, m) == Cardinality({p \in P : Target(Last(p)) = m})

Occurrences(list, m) == Cardinality({k \in 1..Len(list) : list[k] = m})
Visits(m) == Cardinality({k \in 1..Len(call.calls) : call.calls[k][1] = m})

EdgeRelationIs(R) == Forward = R

(***************************************************************************)
(* C1: on an acyclic graph, after any additions and removals of edges, the *)
(* nodes that occur in GetDependencies(N) are exactly the nodes reachable  *)
(* from N by following edges backward, from an Input parameter to the node *)
(* that owns the edge's Output parameter; N itself and the nodes that are  *)
(* only downstream of N do not occur.                                      *)
(***************************************************************************)
C1_DependenciesAreUpstream ==
  (call.op = "GetDependencies" /\ Acyclic) =>
     /\ Range(call.list) = Upstream(call.node)
     /\ call.node \notin Range(call.list)
     /\ Range(call.list) \cap (Downstream(call.node) \ Upstream(call.node)) = {}

\* the chain A -> B -> C, with D downstream of C, queried at C
C1_Witness ==
  /\ call.op = "GetDependencies"
  /\ call.node = "C"
  /\ EdgeRelationIs({<<"A", "B">>, <<"B", "C">>, <<"C", "D">>})
  /\ Range(call.list) = {"A", "B"}

(***************************************************************************)
(* C2: on an acyclic graph a node M occurs in GetDependencies(N) as many   *)
(* times as there are backward edge-paths from N to M; in the diamond      *)
(* A->B, A->C, B->D, C->D, A occurs twice in GetDependencies(D), and B and *)
(* C once each.                                                            *)
(***************************************************************************)
C2_OccurrencesArePaths ==
  (call.op = "GetDependencies" /\ Acyclic) =>
     LET paths == BackPathsFrom(call.node)
     IN \A m \in Nodes : Occurrences(call.list, m) = BackPathsTo(paths, m)

Diamond ==
  /\ EdgeRelationIs({<<"A", "B">>, <<"A", "C">>, <<"B", "D">>, <<"C", "D">>})
  /\ Cardinality(AllEdges) = 4

C2_Witness ==
  /\ call.op = "GetDependencies"
  /\ call.node = "D"
  /\ Diamond
  /\ Occurrences(call.list, "A") = 2
  /\ Occurrences(call.list, "B") = 1
  /\ Occurrences(call.list, "C") = 1

(***************************************************************************)
(* C3: InvalidateCache(N, start, end) calls InvalidateCache on every node  *)
(* downstream of N at least once, and at least twice on a node that two    *)
(* paths lead to.                                                          *)
(***************************************************************************)
C3_InvalidationReaches ==
  call.op = "InvalidateCache" =>
     LET paths == ForwardPathsFrom(call.node)
     IN \A m \in Downstream(call.node) :
           /\ Visits(m) >= 1
           /\ ForwardPathsTo(paths, m) >= 2 => Visits(m) >= 2

\* the diamond, invalidated at A: D is reached through B and through C
C3_Witness ==
  /\ call.op = "InvalidateCache"
  /\ call.node = "A"
  /\ Diamond
  /\ Visits("B") >= 1
  /\ Visits("C") >= 1
  /\ Visits("D") >= 2

(***************************************************************************)
(* C5: on an acyclic graph GetDependencies(N) and InvalidateCache(N, ..)   *)
(* terminate: every recursive call returns, the calls never nesting deeper *)
(* than there are nodes.                                                   *)
(***************************************************************************)
C5_Terminates ==
  (call.op # "none" /\ Acyclic) =>
     /\ ~call.overflow
     /\ call.depth <= Cardinality(Nodes)

\* the longest chain the nodes allow, walked from its end by each traversal
C5_Witness ==
  /\ call.op # "none"
  /\ Cardinality(Forward) = 3
  /\ call.depth = 4
  /\ ~call.overflow

(***************************************************************************)
(* C8: InvalidateCache on a node none of whose Output parameters has an    *)
(* edge makes no recursive call, whatever edges its Input parameters have, *)
(* on any graph, cyclic ones included.                                     *)
(***************************************************************************)
NoOutputEdge(n) == \A e \in AllEdges : parent(e.output) # n

C8_LeafRelaysNothing ==
  (call.op = "InvalidateCache" /\ NoOutputEdge(call.node)) => call.calls = <<>>

\* B has an Output parameter without edges and two edges on its Input parameter
C8_Witness ==
  /\ call.op = "InvalidateCache"
  /\ call.node = "B"
  /\ NoOutputEdge("B")
  /\ Len(edges[<<"B", 1>>]) = 2
  /\ call.calls = <<>>

(***************************************************************************)
(* C9: every recursive call InvalidateCache(N, start, end) makes, at every *)
(* depth and on every branch, is given the same start and the same end, on *)
(* any graph, cyclic ones included.                                        *)
(***************************************************************************)
C9_RangeIsRelayedUnchanged ==
  call.op = "InvalidateCache" =>
     \A k \in 1..Len(call.calls) :
        call.calls[k][2] = call.start /\ call.calls[k][3] = call.end

\* a range whose ends differ, relayed three calls deep and along two branches
C9_Witness ==
  /\ call.op = "InvalidateCache"
  /\ call.node = "A"
  /\ call.start # call.end
  /\ ~call.overflow
  /\ call.depth >= 3
  /\ Visits("B") >= 1
  /\ Visits("C") >= 1
  /\ Visits("D") >= 1

(***************************************************************************)
(* C4: on an acyclic graph the length of GetDependencies(N) is bounded in  *)
(* terms of the number of edges of the graph and the number of edges on    *)
(* its longest path, parallel edges included.  The claim bounds it by      *)
(* their product, and the code does not keep to that: with three parallel  *)
(* edges A -> B and four parallel edges B -> C (7 edges, longest path 2)   *)
(* GetDependencies(C) has 4 + 4 * 3 = 16 entries.  The length is the       *)
(* number of backward edge-paths from N, which is at most the number of    *)
(* edges to the power of the longest path.                                 *)
(***************************************************************************)
EdgeCount == Cardinality(AllEdges)

\* the number of edges on the longest path of the graph
LongestPath ==
  LET lengths == {Len(p) : p \in UNION {ForwardPathsFrom(n) : n \in Nodes}}
  IN IF lengths = {} THEN 0 ELSE CHOOSE l \in lengths : \A k \in lengths : k <= l

RECURSIVE Power(_, _)
Power(b, k) == IF k = 0 THEN 1 ELSE b * Power(b, k - 1)

\* C4 as it stands: the length is at most edges times longest path
C4_LengthWithinProduct ==
  (call.op = "GetDependencies" /\ Acyclic) =>
     Len(call.list) <= EdgeCount * LongestPath

\* C4 as amended: GetDependencies(N) returns, with one entry for each
\* backward edge-path from N, at most edges to the power of longest path
C4_LengthWithinPower ==
  (call.op = "GetDependencies" /\ Acyclic) =>
     /\ ~call.overflow
     /\ Len(call.list) = Cardinality(BackPathsFrom(call.node))
     /\ Len(call.list) <= Power(EdgeCount, LongestPath)

\* three parallel edges A -> B, four parallel edges B -> C, queried at C
C4_Witness ==
  /\ call.op = "GetDependencies"
  /\ call.node = "C"
  /\ EdgeCount = 7
  /\ LongestPath = 2
  /\ Len(call.list) = 16

(***************************************************************************)
(* C6: when GetDependencies or InvalidateCache is called on a node of a    *)
(* cycle, the traversal detects the cycle and does not recurse around it   *)
(* for ever: it enters no node that it is already in, so its calls never   *)
(* nest deeper than there are nodes, and it returns.  The code has no such *)
(* check: on the cycle B -> C -> B, GetDependencies(B) recurses until the  *)
(* call stack is used up.                                                  *)
(***************************************************************************)
OnCycle(n) == n \in Downstream(n)

C6_CycleIsDetected ==
  (call.op # "none" /\ OnCycle(call.node)) =>
     /\ ~call.overflow
     /\ call.depth <= Cardinality(Nodes)

(***************************************************************************)
(* C7: AddParameter with an id the node already has fails (the assertion   *)
(* fires before the parameter is attached), so that whenever the calls     *)
(* made so far have all completed, the ids of the parameters of a node are *)
(* pairwise distinct.  Where QT_NO_DEBUG is defined the assertion is not   *)
(* there and the second parameter of the same id is attached.              *)
(***************************************************************************)
IdsDistinct(n) ==
  \A j, k \in 1..Len(parameters(n)) :
     j # k => parameters(n)[j].id # parameters(n)[k].id

C7_DuplicateIdIsRejected ==
  ~build.aborted => \A n \in Nodes : IdsDistinct(n)

(***************************************************************************)
(* C10: XMLConnectNodes on a batch in which some connections have a source *)
(* token that is not in node_ptrs completes, creates no edge for those,    *)
(* and creates the edge from the named Output parameter to the input for   *)
(* every connection of the batch whose token is there.                     *)
(***************************************************************************)
C10_MissingTokenIsSkipped ==
  xml.connected =>
     AllEdges = SavedEdges(xml.node_ptrs, xml.desired_connections)

\* a connection whose token is missing, ahead of one whose token is there
C10_Witness ==
  /\ xml.connected
  /\ Len(xml.desired_connections) = 2
  /\ ~Resolves(xml.node_ptrs, xml.desired_connections[1])
  /\ Resolves(xml.node_ptrs, xml.desired_connections[2])
  /\ AllEdges = {EdgeOfConnection(xml.node_ptrs, xml.desired_connections[2])}

(***************************************************************************)
(* C11: on an acyclic graph InvalidateCache(N, r) invokes InvalidateCache  *)
(* on a node M exactly as many times as there are forward edge-paths from  *)
(* N to M; a node that is not forward-reachable from N, such as one that   *)
(* is only upstream of N, is never invoked; and every edge on an Output    *)
(* parameter of a node makes one recursive call each time the node is      *)
(* invoked, so that the calls on M are as many as the invocations of the   *)
(* sources of the edges into M, none skipped and none repeated.            *)
(***************************************************************************)
\* the times InvalidateCache runs on m: the recursive calls and the call made
Invocations(m) == Visits(m) + (IF m = call.node THEN 1 ELSE 0)

\* the invocations of the sources of the edges E, an edge at a time
RECURSIVE InvokedThrough(_)
InvokedThrough(E) ==
  IF E = {} THEN 0
  ELSE LET e == CHOOSE d \in E : TRUE
       IN Invocations(Source(e)) + InvokedThrough(E \ {e})

C11_VisitsArePaths ==
  (call.op = "InvalidateCache" /\ Acyclic) =>
     LET paths == ForwardPathsFrom(call.node)
     IN /\ ~call.overflow
        /\ Len(call.calls) = Cardinality(paths)
        /\ \A m \in Nodes :
              /\ Visits(m) = ForwardPathsTo(paths, m)
              /\ m \notin Downstream(call.node) => Visits(m) = 0
              /\ Visits(m) = InvokedThrough({e \in AllEdges : Target(e) = m})

\* the diamond invalidated at A, with an edge on each of A's two Output
\* parameters: both are relayed through, and D is invoked once per path
C11_Witness ==
  /\ call.op = "InvalidateCache"
  /\ call.node = "A"
  /\ Diamond
  /\ \E e1, e2 \in AllEdges : e1.output = <<"A", 1>> /\ e2.output = <<"A", 2>>
  /\ Visits("A") = 0
  /\ Visits("B") = 1
  /\ Visits("C") = 1
  /\ Visits("D") = 2
  /\ Len(call.calls) = 4

(***************************************************************************)
(* C12: GetDependencies(N) is the pre-order depth-first sequence: for each *)
(* Input parameter of N in declaration order, for each of its edges in     *)
(* edge order, the source node S followed immediately by the whole of      *)
(* GetDependencies(S).  Hence every occurrence of a node in the result is  *)
(* immediately followed by that node's own dependency sequence, and for    *)
(* the chain A->B->C GetDependencies(C) is <<B, A>>.                       *)
(***************************************************************************)
RECURSIVE PreOrder(_, _)
RECURSIVE PreOrderOfEdges(_, _)
RECURSIVE PreOrderOfParams(_, _, _)

\* for each edge in edge order: the source, then the sequence of the source
PreOrderOfEdges(param_edges, k) ==
  IF param_edges = <<>> THEN <<>>
  ELSE LET S == Source(Head(param_edges))
       IN <<S>> \o PreOrder(S, k - 1) \o PreOrderOfEdges(Tail(param_edges), k)

\* for each Input parameter in declaration order, from the i-th on
PreOrderOfParams(n, i, k) ==
  IF i > Len(params[n]) THEN <<>>
  ELSE (IF params[n][i].type = kInput THEN PreOrderOfEdges(edges[<<n, i>>], k) ELSE <<>>)
         \o PreOrderOfParams(n, i + 1, k)

\* the sequence of n, k nodes deep
PreOrder(n, k) == IF k = 0 THEN <<>> ELSE PreOrderOfParams(n, 1, k)

Chain == /\ EdgeRelationIs({<<"A", "B">>, <<"B", "C">>})
         /\ Cardinality(AllEdges) = 2

C12_IsPreOrder ==
  (call.op = "GetDependencies" /\ Acyclic) =>
     /\ call.list = PreOrder(call.node, Cardinality(Nodes))
     /\ \A k \in 1..Len(call.list) :
           LET own == GetDependencies(call.list[k]).list
           IN /\ k + Len(own) <= Len(call.list)
              /\ SubSeq(call.list, k + 1, k + Len(own)) = own
     /\ (Chain /\ call.node = "C") => call.list = <<"B", "A">>

\* D fed by B and by C through its two Input parameters, B fed by A:
\* GetDependencies(D) is B with its own sequence <<A>>, then C
C12_Witness ==
  /\ call.op = "GetDependencies"
  /\ call.node = "D"
  /\ \E e1, e2 \in AllEdges :
        /\ e1.input = <<"D", 1>> /\ Source(e1) = "B"
        /\ e2.input = <<"D", 2>> /\ Source(e2) = "C"
  /\ EdgeRelationIs({<<"A", "B">>, <<"B", "D">>, <<"C", "D">>})
  /\ Cardinality(AllEdges) = 3
  /\ call.list = <<"B", "A", "C">>

(***************************************************************************)
(* NodeParamViewWidgetBridge.  The bridge shows one input: bridge.input_   *)
(* names it, bridge.type is its data type (a float, shown by a slider, or  *)
(* a combo), bridge.value its value at the bridge's time, bridge.offset    *)
(* and bridge.strings its "offset" property and combo box strings (an      *)
(* empty string is TRUE).  bridge.slider is the value of the slider and    *)
(* bridge.cb the items (TRUE: a separator) and the current index of the    *)
(* combo box; the entries of a QComboBox are counted from 0 and its index  *)
(* is -1 when no entry is current.  bridge.dragger_ is the dragger, with   *)
(* the times it was started since it last ended.  bridge.calls lists what  *)
(* the handler of the last event called, bridge.event is that event.       *)
(***************************************************************************)
kFloat == "kFloat"
kCombo == "kCombo"
InputIds == {"x", "y"}
Values == 0..MaxValue

\* NodeInputDragger::IsStarted
IsStarted(b) == b.dragger_.started

\* NodeInputDragger::Start
Start(b) ==
  [b EXCEPT !.dragger_.started = TRUE,
            !.dragger_.starts = @ + 1,
            !.calls = Append(@, "Start")]

\* NodeInputDragger::Drag: the input takes the value, without an undo command
Drag(b, value) ==
  [b EXCEPT !.value = value,
            !.picked = -1,
            !.calls = Append(@, "Drag")]

\* NodeInputDragger::End
End(b) ==
  [b EXCEPT !.dragger_.started = FALSE,
            !.dragger_.starts = 0,
            !.calls = Append(@, "End")]

\* QComboBox::setCurrentIndex: an index that is not an entry's leaves no entry current
setCurrentIndex(cb, index) ==
  [cb EXCEPT !.index = IF index \in 0..(Len(cb.items) - 1) THEN index ELSE -1]

\* cb->itemData(i, Qt::AccessibleDescriptionRole).toString() == "separator"
IsSeparator(cb, i) == cb.items[i + 1]

\* SetInputValue: a command that sets the value of the track is pushed on the
\* undo stack, which runs it; bridge.undo is the number of commands pushed
SetInputValue(b, value, track) ==
  [b EXCEPT !.undo = @ + 1,
            !.value = value,
            !.picked = -1,
            !.calls = Append(@, "SetInputValue")]

\* a handler that pushes the value of every event that is not a dragging one
ProcessSliderPushing(b, dragging, value) ==
  IF dragging
    THEN Drag(IF ~IsStarted(b) THEN Start(b) ELSE b, value)
  ELSE IF IsStarted(b)
    THEN SetInputValue(End(Drag(b, value)), value, 0)
  ELSE SetInputValue(b, value, 0)

\* ProcessSlider(slider, value), where dragging is slider->IsDragging() and
\* the slider is the bridge's first widget
ProcessSlider(b, dragging, value) ==
  IF dragging
    THEN Drag(IF ~IsStarted(b) THEN Start(b) ELSE b, value)
  ELSE IF IsStarted(b)
    THEN End(Drag(b, value))
  ELSE SetInputValue(b, value, 0)

\* for (int i=index-1; i>=0; i--): subtract any splitters up until this point
RECURSIVE SubtractSplitters(_, _, _)
SubtractSplitters(cb, i, index) ==
  IF i < 0 THEN index
  ELSE SubtractSplitters(cb, i - 1, IF IsSeparator(cb, i) THEN index - 1 ELSE index)

\* WidgetCallback, the slot of the widgets' signals
WidgetCallback(b, dragging) ==
  IF b.type = kFloat THEN ProcessSlider(b, dragging, b.slider - b.offset)
  ELSE LET index == b.cb.index
       IN SetInputValue(b, SubtractSplitters(b.cb, index - 1, index), 0)

\* UpdateWidgetValues: the widgets show the input's value
UpdateWidgetValues(b) ==
  LET shown == IF b.type = kFloat
                 THEN [b EXCEPT !.slider = b.value + b.offset]
                 ELSE [b EXCEPT !.cb = setCurrentIndex(@, b.value)]
  IN [shown EXCEPT !.calls = Append(@, "UpdateWidgetValues")]

\* a handler that takes the range without its two ends
InputValueChangedInside(b, input, range) ==
  IF b.input_ = input /\ ~IsStarted(b) /\ range.in < b.time_ /\ range.out > b.time_
    THEN UpdateWidgetValues(b)
    ELSE b

\* InputValueChanged(input, range), the slot of Node::ValueChanged
InputValueChanged(b, input, range) ==
  IF b.input_ = input /\ ~IsStarted(b) /\ range.in <= b.time_ /\ range.out >= b.time_
    THEN UpdateWidgetValues(b)
    ELSE b

\* SetTime(time)
SetTime(b, time) == UpdateWidgetValues([b EXCEPT !.time_ = time])

\* foreach (const QString& s, items): an empty string is shown as a separator
ComboItems(strings) == [k \in 1..Len(strings) |-> strings[k] = ""]

\* PropertyChanged(input, key, value), the slot of Node::InputPropertyChanged
PropertyChanged(b, input, key) ==
  IF input # b.input_ THEN b
  ELSE IF b.type = kFloat
    THEN (IF key = "offset" THEN UpdateWidgetValues(b) ELSE b)
  ELSE LET old_index == b.cb.index
           rebuilt == setCurrentIndex([b.cb EXCEPT !.items = ComboItems(b.strings)], old_index)
           shown == [b EXCEPT !.cb = rebuilt, !.picked = -1]
       IN IF rebuilt.index # old_index THEN WidgetCallback(shown, FALSE) ELSE shown

(***************************************************************************)
(* The events of a bridge.  Each action is one event and the whole of its  *)
(* handling; bridge.event keeps what arrived and how the bridge was when   *)
(* it arrived.                                                             *)
(***************************************************************************)
Strings == {"", "a"}
StringLists == UNION {[1..k -> Strings] : k \in 0..MaxItems}
Ranges == {r \in [in : Times, out : Times] : r.in <= r.out}
Keys == {"offset", "combo_str"}

Arrived(b, op, input, range, dragging) ==
  [b EXCEPT !.calls = <<>>,
            !.event = [op |-> op, input |-> input, range |-> range, dragging |-> dragging,
                       started |-> IsStarted(b), redrawn |-> FALSE]]

\* whether the handler has changed what the widgets show
Handled(before, after) ==
  [after EXCEPT !.event.redrawn = (after.slider # before.slider \/ after.cb # before.cb)]

WithinCaps(b) == b.undo <= MaxUndo

\* the values a property of the input can take
PropertyValues(data_type, key) ==
  IF key = "offset" THEN (IF data_type = kFloat THEN Values ELSE {0})
  ELSE (IF data_type = kCombo THEN StringLists ELSE {<<>>})

\* the slider is moved to v and signals ValueChanged
SliderValueChanged(dragging, v) ==
  /\ bridge.type = kFloat
  /\ LET moved == [Arrived(bridge, "ValueChanged", bridge.input_, [in |-> 0, out |-> 0], dragging)
                     EXCEPT !.slider = v]
         handled == Handled(moved, WidgetCallback(moved, dragging))
     IN WithinCaps(handled) /\ bridge' = handled
  /\ UNCHANGED <<params, edges, call, build, xml>>

\* the user makes entry i of the combo box current; it signals currentIndexChanged
ComboIndexChanged(i) ==
  /\ bridge.type = kCombo
  /\ i \in 0..(Len(bridge.cb.items) - 1)
  /\ ~IsSeparator(bridge.cb, i)
  /\ i # bridge.cb.index
  /\ LET chosen == [Arrived(bridge, "currentIndexChanged", bridge.input_, [in |-> 0, out |-> 0], FALSE)
                      EXCEPT !.cb.index = i]
         handled == Handled(chosen, [WidgetCallback(chosen, FALSE) EXCEPT !.picked = i])
     IN WithinCaps(handled) /\ bridge' = handled
  /\ UNCHANGED <<params, edges, call, build, xml>>

\* the node signals ValueChanged(input, range); the bridge's input has taken
\* the value v if it is the one that changed
NodeValueChanged(input, range, v) ==
  /\ bridge.type # "kNone"
  /\ LET arrived == Arrived(bridge, "InputValueChanged", input, range, FALSE)
         changed == IF input = bridge.input_ /\ v # bridge.value
                      THEN [arrived EXCEPT !.value = v, !.picked = -1]
                      ELSE arrived
     IN bridge' = Handled(changed, InputValueChanged(changed, input, range))
  /\ UNCHANGED <<params, edges, call, build, xml>>

\* the node signals InputPropertyChanged(input, key, value), the property
\* of the bridge's input having changed if it is that input's
NodePropertyChanged(input, key, value) ==
  /\ bridge.type # "kNone"
  /\ LET arrived == Arrived(bridge, "PropertyChanged", input, [in |-> 0, out |-> 0], FALSE)
         changed == IF input # bridge.input_ THEN arrived
                    ELSE IF key = "offset" THEN [arrived EXCEPT !.offset = value]
                    ELSE [arrived EXCEPT !.strings = value]
         handled == Handled(changed, PropertyChanged(changed, input, key))
     IN WithinCaps(handled) /\ bridge' = handled
  /\ UNCHANGED <<params, edges, call, build, xml>>

\* SetTime(time) is called
CallSetTime(time) ==
  /\ bridge.type # "kNone"
  /\ LET arrived == Arrived(bridge, "SetTime", bridge.input_, [in |-> time, out |-> time], FALSE)
     IN bridge' = Handled(arrived, SetTime(arrived, time))
  /\ UNCHANGED <<params, edges, call, build, xml>>

\* the constructor: CreateWidgets adds an item per string and shows the value
CreateWidgets(data_type, strings) ==
  UpdateWidgetValues(
    [type |-> data_type, input_ |-> "x", time_ |-> 0, value |-> 0, offset |-> 0,
     strings |-> strings, slider |-> 0,
     cb |-> [items |-> [k \in 1..Len(strings) |-> FALSE], index |-> -1],
     dragger_ |-> [started |-> FALSE, starts |-> 0],
     undo |-> 0, picked |-> -1, calls |-> <<>>,
     event |-> [op |-> "CreateWidgets", input |-> "x", range |-> [in |-> 0, out |-> 0],
                dragging |-> FALSE, started |-> FALSE, redrawn |-> FALSE]])

\* a bridge of a float input, with its slider
InitBridge ==
  /\ params = GraphParams
  /\ edges = [p \in Refs(GraphParams) |-> <<>>]
  /\ call = NoCall
  /\ build = DebugBuild
  /\ xml = NoLoad
  /\ bridge = CreateWidgets(kFloat, <<>>)

NextBridge ==
  \/ \E dragging \in BOOLEAN, v \in Values : SliderValueChanged(dragging, v)
  \/ \E input \in InputIds, range \in Ranges, v \in Values : NodeValueChanged(input, range, v)
  \/ \E input \in InputIds, key \in Keys :
        \E value \in PropertyValues(bridge.type, key) : NodePropertyChanged(input, key, value)
  \/ \E time \in Times : CallSetTime(time)

SpecBridge == InitBridge /\ [][NextBridge]_vars

\* a bridge of a combo input, with its combo box
InitCombo ==
  /\ params = GraphParams
  /\ edges = [p \in Refs(GraphParams) |-> <<>>]
  /\ call = NoCall
  /\ build = DebugBuild
  /\ xml = NoLoad
  /\ \E strings \in StringLists : bridge = CreateWidgets(kCombo, strings)

NextCombo ==
  \/ \E i \in 0..(MaxItems - 1) : ComboIndexChanged(i)
  \/ \E input \in InputIds, range \in Ranges, v \in Values : NodeValueChanged(input, range, v)
  \/ \E input \in InputIds, key \in Keys :
        \E value \in PropertyValues(bridge.type, key) : NodePropertyChanged(input, key, value)
  \/ \E time \in Times : CallSetTime(time)

SpecCombo == InitCombo /\ [][NextCombo]_vars

(***************************************************************************)
(* C13: over any sequence of slider ValueChanged events handled by         *)
(* ProcessSlider, the dragger is started at most once per drag, and only   *)
(* by an event that arrives with the slider dragging and the dragger not   *)
(* started; it is ended exactly by the first event that arrives with the   *)
(* slider not dragging while the dragger is started, after one final       *)
(* Drag(value); and SetInputValue, the push on the undo stack, is called   *)
(* only for an event that arrives with the slider not dragging and the     *)
(* dragger not started, never during a drag nor on the event that ends it. *)
(***************************************************************************)
Called(name) == name \in Range(bridge.calls)

C13_DragProtocol ==
  /\ bridge.type # "kNone" =>
        /\ bridge.dragger_.starts <= 1
        /\ bridge.dragger_.started <=> bridge.dragger_.starts = 1
  /\ (bridge.type # "kNone" /\ bridge.event.op = "ValueChanged") =>
        LET dragging == bridge.event.dragging
            started == bridge.event.started
        IN /\ Called("Start") <=> (dragging /\ ~started)
           /\ Called("Start") => bridge.calls = <<"Start", "Drag">>
           /\ Called("End") <=> (~dragging /\ started)
           /\ Called("End") => bridge.calls = <<"Drag", "End">> /\ ~IsStarted(bridge)
           /\ (dragging /\ started) => bridge.calls = <<"Drag">>
           /\ Called("SetInputValue") <=> (~dragging /\ ~started)
           /\ Called("SetInputValue") => bridge.calls = <<"SetInputValue">>
           /\ dragging => IsStarted(bridge)

\* a drag of several events has just been ended by an event that arrived
\* with the slider not dragging: nothing was pushed on the undo stack
C13_Witness ==
  /\ bridge.type = kFloat
  /\ bridge.event.op = "ValueChanged"
  /\ ~bridge.event.dragging
  /\ bridge.event.started
  /\ bridge.calls = <<"Drag", "End">>
  /\ ~IsStarted(bridge)
  /\ bridge.undo = 0
  /\ bridge.value = 1

(***************************************************************************)
(* C14: the combo box index round trip.  When the user has made entry i    *)
(* current and WidgetCallback has stored i minus the number of separators  *)
(* before i, UpdateWidgetValues reading the stored value back makes the    *)
(* same entry i current.  bridge.picked is that entry i, for as long as    *)
(* the stored value and the entries are the ones of the user's choice.     *)
(***************************************************************************)
C14_ComboRoundTrip ==
  (bridge.type = kCombo /\ bridge.picked >= 0 /\ Called("UpdateWidgetValues")) =>
     bridge.cb.index = bridge.picked

(***************************************************************************)
(* C15: InputValueChanged refreshes the widgets (calls UpdateWidgetValues) *)
(* if and only if the changed input is the bridge's input, no drag is in   *)
(* progress (the dragger is not started) and the bridge's time lies in the *)
(* closed interval from range.in to range.out; in every other case, and so *)
(* for any change of value that arrives between the Start and the End of   *)
(* a drag, what the widgets show is left as it was.                        *)
(***************************************************************************)
C15_RefreshOnlyWhenShown ==
  (bridge.type # "kNone" /\ bridge.event.op = "InputValueChanged") =>
     LET input == bridge.event.input
         range == bridge.event.range
     IN /\ Called("UpdateWidgetValues") <=>
             /\ input = bridge.input_
             /\ ~bridge.event.started
             /\ range.in <= bridge.time_
             /\ bridge.time_ <= range.out
        /\ ~Called("UpdateWidgetValues") => ~bridge.event.redrawn
        /\ bridge.event.started => (bridge.calls = <<>> /\ ~bridge.event.redrawn)

\* during a drag the bridge's input changes to a value the slider does not
\* show, at a time the range holds: the slider is left as it was
C15_Witness ==
  /\ bridge.type = kFloat
  /\ bridge.event.op = "InputValueChanged"
  /\ bridge.event.input = bridge.input_
  /\ bridge.event.started
  /\ IsStarted(bridge)
  /\ bridge.event.range.in = bridge.time_
  /\ bridge.event.range.out = bridge.time_
  /\ bridge.calls = <<>>
  /\ bridge.slider # bridge.value + bridge.offset

====
